---------------------------- MODULE Spec2Model ----------------------------
(***************************************************************************)
(* The matcher sublanguage of lit: Matcher::parse, Matcher::resolve and    *)
(* the Display rendering (src/src/matcher.rs), and Config::lookup_variable *)
(* (src/src/config.rs).                                                    *)
(*                                                                         *)
(* A Rust String is modelled as the sequence of its chars, each char a     *)
(* TLA+ string.  Byte lengths are kept where the code mixes char positions *)
(* and byte positions (String::len, str slicing).                          *)
(***************************************************************************)
EXTENDS Integers, Sequences, FiniteSets, TLC

VARIABLES
    source,         \* the source given to the first parse
    chars,          \* parse: what the peekable cursor has not yet yielded
    components,     \* parse: the components pushed so far
    current_text,   \* parse: pending literal characters
    current_regex,  \* parse: characters of the block being scanned
    bracket_level,  \* parse: the i32 depth counter of the block being scanned
    pc,             \* where the program is
    round,          \* 1: parsing the given source, 2: parsing the rendering
    matcher,        \* the Matcher returned by the first parse
    rendered,       \* what Display wrote for matcher
    regex_parts,    \* resolve: the fragments, one per component
    compiled,       \* resolve: the source of the compiled Regex
    panic,          \* the message of the panic that ended the program
    variables,      \* the variables map given to resolve or lookup_variable
    lookup_count,   \* lookup_variable: calls made so far
    lookup_ret      \* lookup_variable: the last call, what it returned

vars == <<source, chars, components, current_text, current_regex,
          bracket_level, pc, round, matcher, rendered, regex_parts,
          compiled, panic, variables, lookup_count, lookup_ret>>

parse_vars == <<source, chars, components, current_text, current_regex,
                bracket_level, round, matcher, rendered>>

lookup_vars == <<variables, lookup_count, lookup_ret>>

----------------------------------------------------------------------------
(* Bounds of the model.                                                    *)

\* Longest source, counted in pieces of Pieces.
MaxPieces == 4
\* Most calls of lookup_variable in one behaviour.
MaxLookups == 4

----------------------------------------------------------------------------
(* Characters.                                                             *)

\* The letter e with acute accent, written by its code point: UTF-8 encodes
\* it in two bytes, and char::is_alphanumeric holds of it.
WideLetter == "U+00E9"

Letters == {"a"}
Digits == {"1"}

\* The pieces sources are built from: the three markers and single characters.
Pieces == { <<"$", "$">>, <<"[", "[">>, <<"]", "]">>,
            <<"$">>, <<"[">>, <<"]">>, <<":">>, <<"a">>, <<"1">>, <<"_">>,
            <<".">>, <<WideLetter>> }

\* char::len_utf8
LenUtf8(c) == IF c = WideLetter THEN 2 ELSE 1

\* char::is_alphanumeric
IsAlphanumeric(c) == c \in Letters \cup Digits \cup {WideLetter}

RECURSIVE ByteLen(_)
\* String::len: the length in bytes
ByteLen(s) == IF s = <<>> THEN 0 ELSE LenUtf8(Head(s)) + ByteLen(Tail(s))

\* The chars of s from the (1-based) position i on.
From(s, i) == SubSeq(s, i, Len(s))

RECURSIVE Concat(_)
\* The concatenation of a sequence of strings.
Concat(ss) == IF ss = <<>> THEN <<>> ELSE Head(ss) \o Concat(Tail(ss))

RECURSIVE Count(_, _)
\* How many times c occurs in s.
Count(s, c) ==
    IF s = <<>> THEN 0
    ELSE (IF Head(s) = c THEN 1 ELSE 0) + Count(Tail(s), c)

----------------------------------------------------------------------------
(* Panics.                                                                 *)

NoPanic == [panicked |-> FALSE]
\* A panic with its message; the program ends there.
Panic(message) == [panicked |-> TRUE, message |-> message]

----------------------------------------------------------------------------
(* Components.                                                             *)

Text(t) == [kind |-> "Text", text |-> t]
Variable(n) == [kind |-> "Variable", name |-> n]
Regex(r) == [kind |-> "Regex", regex |-> r]
NamedRegex(n, r) == [kind |-> "NamedRegex", name |-> n, regex |-> r]

----------------------------------------------------------------------------
(* Matcher::parse.                                                         *)

\* The first element of the matched pair: chars.next()
First(cs) == IF cs = <<>> THEN "None" ELSE cs[1]
\* The second element of the matched pair: chars.peek().cloned()
Second(cs) == IF Len(cs) < 2 THEN "None" ELSE cs[2]

RECURSIVE TakeWhileAlphanumeric(_)
\* chars.clone().take_while(|c| c.is_alphanumeric()).collect()
TakeWhileAlphanumeric(cs) ==
    IF cs = <<>> \/ ~IsAlphanumeric(Head(cs)) THEN <<>>
    ELSE <<Head(cs)>> \o TakeWhileAlphanumeric(Tail(cs))

\* chars.nth(n): yields and drops n + 1 chars, or all of them if fewer are left.
Nth(cs, n) == IF n + 1 >= Len(cs) THEN <<>> ELSE From(cs, n + 2)

\* A complete_text that pushes nothing for an empty accumulator.
CompleteTextUnlessEmpty(text, comps) ==
    IF text = <<>> THEN comps ELSE Append(comps, Text(text))

\* complete_text (lines 32-36): the accumulated text becomes a Text component.
CompleteText(text, comps) == Append(comps, Text(text))

\* regex.chars().position(|c| c == ':'): the 0-based char position, 0 - 1 for None.
RECURSIVE FirstColonIdx(_)
FirstColonIdx(s) ==
    IF s = <<>> THEN 0 - 1
    ELSE IF Head(s) = ":" THEN 0
    ELSE LET rest == FirstColonIdx(Tail(s))
         IN IF rest < 0 THEN 0 - 1 ELSE rest + 1

\* str::is_char_boundary: byte offset b starts a char of s, or is its end.
IsCharBoundary(s, b) == \E k \in 0..Len(s) : ByteLen(SubSeq(s, 1, k)) = b

\* &s[lo..hi] with byte offsets on char boundaries: the chars that start in
\* lo..hi-1.
ByteSlice(s, lo, hi) ==
    LET Start(k) == ByteLen(SubSeq(s, 1, k - 1))
        keep == {k \in 1..Len(s) : lo <= Start(k) /\ Start(k) < hi}
    IN IF keep = {} THEN <<>>
       ELSE SubSeq(s, CHOOSE k \in keep : \A j \in keep : k <= j,
                      CHOOSE k \in keep : \A j \in keep : j <= k)

\* IDENTIFIER_REGEX.is_match: ^[a-zA-Z_][a-zA-Z0-9_]*$
IdentifierRegexIsMatch(s) ==
    /\ s # <<>>
    /\ s[1] \in Letters \cup {"_"}
    /\ \A i \in 2..Len(s) : s[i] \in Letters \cup Digits \cup {"_"}

\* Lines 77-96: the component a block's raw body becomes.  The colon is found
\* by its char position and the body is then sliced at that byte offset; a
\* slice end inside a char makes the slicing panic.
SplitRegex(body) ==
    LET first_colon_idx == FirstColonIdx(body)
    IN IF first_colon_idx < 0 THEN Regex(body)
       ELSE IF ~IsCharBoundary(body, first_colon_idx) THEN [kind |-> "Panic"]
       ELSE LET substr == ByteSlice(body, 0, first_colon_idx)
            IN IF IdentifierRegexIsMatch(substr)
               THEN NamedRegex(substr,
                               ByteSlice(body, first_colon_idx + 1, ByteLen(body)))
               ELSE Regex(body)

\* A block end that does not look at the depth.
IsBlockEndAtAnyDepth(cs, level) == First(cs) = "]" /\ Second(cs) = "]"

\* Line 58: the pair `]]` ends the block only at depth zero.
IsBlockEnd(cs, level) == First(cs) = "]" /\ Second(cs) = "]" /\ level = 0

\* The input of the parse in progress.
CurrentInput == IF round = 1 THEN source ELSE rendered

\* Lines 63-67: the depth after the char c of a block.  The counter is an
\* i32; a source of a few chars cannot take it near its limits.
LevelAfter(level, c) ==
    IF c = "[" THEN level + 1 ELSE IF c = "]" THEN level - 1 ELSE level


----------------------------------------------------------------------------
(* Initial states.                                                         *)

RECURSIVE SourcesOf(_)
\* The sources made of at most n pieces.
SourcesOf(n) ==
    IF n = 0 THEN {<<>>}
    ELSE LET shorter == SourcesOf(n - 1)
         IN shorter \cup {p \o s : p \in Pieces, s \in shorter}

Sources == SourcesOf(MaxPieces)

\* The state on entry to the outer loop of parse(s) (lines 26-29).
ParseEntry(s) ==
    /\ source = s
    /\ chars = s
    /\ components = <<>>
    /\ current_text = <<>>
    /\ current_regex = <<>>
    /\ bracket_level = 0

NoResolve ==
    /\ regex_parts = <<>>
    /\ compiled = "None"

NoLookup ==
    /\ variables = <<>>
    /\ lookup_count = 0
    /\ lookup_ret = "None"

Init ==
    /\ \E s \in Sources : ParseEntry(s)
    /\ pc = "outer"
    /\ round = 1
    /\ matcher = <<>>
    /\ rendered = <<>>
    /\ panic = NoPanic
    /\ NoResolve
    /\ NoLookup

----------------------------------------------------------------------------
(* Matcher::parse, the outer loop (lines 31-107).                          *)

\* Lines 40-48 with a non-empty name: the name is skipped by its byte length.
ParseVariable ==
    /\ pc = "outer"
    /\ First(chars) = "$" /\ Second(chars) = "$"
    /\ LET after == From(chars, 3)
           name == TakeWhileAlphanumeric(after)
       IN /\ name # <<>>
          /\ chars' = Nth(after, ByteLen(name) - 1)
          /\ components' = Append(components, Variable(name))
    /\ UNCHANGED <<source, current_text, current_regex, bracket_level, pc,
                   round, matcher, rendered, regex_parts, compiled, panic>>
    /\ UNCHANGED lookup_vars

\* Line 46 with an empty name, overflow checks on (the dev and test
\* profiles): `name.len() - 1` panics.
ParseVariableEmptyNamePanic ==
    /\ pc = "outer"
    /\ First(chars) = "$" /\ Second(chars) = "$"
    /\ TakeWhileAlphanumeric(From(chars, 3)) = <<>>
    /\ pc' = "panicked"
    /\ panic' = Panic("attempt to subtract with overflow")
    /\ chars' = From(chars, 3)
    /\ UNCHANGED <<source, components, current_text, current_regex,
                   bracket_level, round, matcher, rendered, regex_parts,
                   compiled>>
    /\ UNCHANGED lookup_vars

\* Line 46 with an empty name, overflow checks off (the release profile):
\* `name.len() - 1` wraps to usize::MAX and nth drains the cursor.
ParseVariableEmptyNameWrap ==
    /\ pc = "outer"
    /\ First(chars) = "$" /\ Second(chars) = "$"
    /\ TakeWhileAlphanumeric(From(chars, 3)) = <<>>
    /\ chars' = <<>>
    /\ components' = Append(components, Variable(<<>>))
    /\ UNCHANGED <<source, current_text, current_regex, bracket_level, pc,
                   round, matcher, rendered, regex_parts, compiled, panic>>
    /\ UNCHANGED lookup_vars

\* Lines 50-55: `[[` flushes the text and opens a block.
ParseRegexOpen ==
    /\ pc = "outer"
    /\ First(chars) = "[" /\ Second(chars) = "["
    /\ components' = CompleteText(current_text, components)
    /\ current_text' = <<>>
    /\ chars' = From(chars, 3)
    /\ current_regex' = <<>>
    /\ bracket_level' = 0
    /\ pc' = "inner"
    /\ UNCHANGED <<source, round, matcher, rendered, regex_parts, compiled,
                   panic>>
    /\ UNCHANGED lookup_vars

\* Lines 99-101: any other char is literal text.
ParseText ==
    /\ pc = "outer"
    /\ First(chars) # "None"
    /\ ~(First(chars) = "$" /\ Second(chars) = "$")
    /\ ~(First(chars) = "[" /\ Second(chars) = "[")
    /\ current_text' = Append(current_text, First(chars))
    /\ chars' = Tail(chars)
    /\ UNCHANGED <<source, components, current_regex, bracket_level, pc, round,
                   matcher, rendered, regex_parts, compiled, panic>>
    /\ UNCHANGED lookup_vars

\* Lines 102-109: the end of the input flushes the text and parse returns.
ParseEnd ==
    /\ pc = "outer"
    /\ First(chars) = "None"
    /\ components' = CompleteText(current_text, components)
    /\ current_text' = <<>>
    /\ pc' = "returned"
    /\ UNCHANGED <<source, chars, current_regex, bracket_level, round, matcher,
                   rendered, regex_parts, compiled, panic>>
    /\ UNCHANGED lookup_vars

----------------------------------------------------------------------------
(* Matcher::parse, the block loop (lines 56-96).                           *)

\* Lines 77-96 after the loop has been left with `rest` still to scan.
FinishRegex(rest) ==
    LET comp == SplitRegex(current_regex)
    IN /\ chars' = rest
       /\ IF comp.kind = "Panic"
          THEN /\ pc' = "panicked"
               /\ panic' = Panic("byte index is not a char boundary")
               /\ UNCHANGED components
          ELSE /\ pc' = "outer"
               /\ components' = Append(components, comp)
               /\ UNCHANGED panic
       /\ UNCHANGED <<source, current_text, current_regex, bracket_level,
                      round, matcher, rendered, regex_parts, compiled>>
       /\ UNCHANGED lookup_vars

\* Lines 58-61: `]]` at depth zero ends the block.
RegexClose ==
    /\ pc = "inner"
    /\ IsBlockEnd(chars, bracket_level)
    /\ FinishRegex(From(chars, 3))

\* Lines 62-70: any other char belongs to the body and moves the depth.
RegexChar ==
    /\ pc = "inner"
    /\ First(chars) # "None"
    /\ ~IsBlockEnd(chars, bracket_level)
    /\ bracket_level' = LevelAfter(bracket_level, First(chars))
    /\ current_regex' = Append(current_regex, First(chars))
    /\ chars' = Tail(chars)
    /\ UNCHANGED <<source, components, current_text, pc, round, matcher,
                   rendered, regex_parts, compiled, panic>>
    /\ UNCHANGED lookup_vars

\* Lines 71-73: the end of the input ends the block.
RegexEnd ==
    /\ pc = "inner"
    /\ First(chars) = "None"
    /\ FinishRegex(chars)

----------------------------------------------------------------------------
(* impl fmt::Display for Matcher (lines 126-139).                          *)

\* What one component writes (lines 129-134).
FmtComponent(c) ==
    CASE c.kind = "Text" -> c.text
      [] c.kind = "Variable" -> <<"$", "$">> \o c.name
      [] c.kind = "Regex" -> <<"[", "[">> \o c.regex \o <<"]", "]">>
      [] c.kind = "NamedRegex" ->
            <<"[", "[">> \o c.name \o <<":">> \o c.regex \o <<"]", "]">>

\* to_string(): the components' writes, in order.
Fmt(comps) == Concat([i \in 1..Len(comps) |-> FmtComponent(comps[i])])

\* The caller keeps the parsed Matcher and renders it.
Display ==
    /\ pc = "returned"
    /\ round = 1
    /\ matcher' = components
    /\ rendered' = Fmt(components)
    /\ pc' = "rendered"
    /\ UNCHANGED <<source, chars, components, current_text, current_regex,
                   bracket_level, round, regex_parts, compiled, panic>>
    /\ UNCHANGED lookup_vars

\* The caller parses the rendering.
ParseRendered ==
    /\ pc = "rendered"
    /\ chars' = rendered
    /\ components' = <<>>
    /\ current_text' = <<>>
    /\ current_regex' = <<>>
    /\ bracket_level' = 0
    /\ round' = 2
    /\ pc' = "outer"
    /\ UNCHANGED <<source, matcher, rendered, regex_parts, compiled, panic>>
    /\ UNCHANGED lookup_vars

----------------------------------------------------------------------------
(* Matcher::resolve (lines 111-123).                                       *)

\* regex_syntax::is_meta_character, which regex::escape asks of every char.
MetaCharacters ==
    {"\\", ".", "+", "*", "?", "(", ")", "|", "[", "]", "{", "}", "^", "$",
     "#", "&", "-", "~"}

RECURSIVE Escape(_)
\* regex::escape (line 113): a backslash goes before every meta character.
Escape(text) ==
    IF text = <<>> THEN <<>>
    ELSE (IF Head(text) \in MetaCharacters THEN <<"\\">> ELSE <<>>)
         \o <<Head(text)>> \o Escape(Tail(text))

\* The maps callers resolve against.
VarMaps ==
    { <<>>,
      (<<"a">> :> <<"a", ".", "b">>),
      (<<"a">> :> <<".">>) @@ (<<"1">> :> <<"[", "a", "]">>) }

\* Line 116: variables.get(name) is None.
IsUnbound(comp, vs) == comp.kind = "Variable" /\ comp.name \notin DOMAIN vs

\* Fragments with the value of a Variable escaped like a Text.
RegexPartEscapingValues(comp, vs) ==
    CASE comp.kind = "Text" -> Escape(comp.text)
      [] comp.kind = "Variable" -> Escape(vs[comp.name])
      [] comp.kind = "Regex" -> comp.regex
      [] comp.kind = "NamedRegex" ->
            <<"(", "?", "P", "<">> \o comp.name \o <<">">> \o comp.regex
            \o <<")">>

\* Lines 112-121: the fragment of one component.
RegexPart(comp, vs) ==
    CASE comp.kind = "Text" -> Escape(comp.text)
      [] comp.kind = "Variable" -> vs[comp.name]
      [] comp.kind = "Regex" -> comp.regex
      [] comp.kind = "NamedRegex" ->
            <<"(", "?", "P", "<">> \o comp.name \o <<">">> \o comp.regex
            \o <<")">>

\* resolve(&self, variables) on the parsed Matcher.  The first unbound
\* Variable panics (line 116).  Regex::new is the regex crate's: its verdict
\* on the joined source is left open, and a rejection panics (line 122).
Resolve ==
    /\ pc = "returned"
    /\ round = 1
    /\ \E vs \in VarMaps :
        /\ variables' = vs
        /\ IF \E i \in 1..Len(components) : IsUnbound(components[i], vs)
           THEN /\ pc' = "panicked"
                /\ panic' = Panic("no variable with that name")
                /\ UNCHANGED <<regex_parts, compiled>>
           ELSE /\ regex_parts' =
                      [i \in 1..Len(components) |-> RegexPart(components[i], vs)]
                /\ \E valid \in BOOLEAN :
                      IF valid
                      THEN /\ compiled' = Concat(regex_parts')
                           /\ pc' = "resolved"
                           /\ UNCHANGED panic
                      ELSE /\ pc' = "panicked"
                           /\ panic' = Panic("generated invalid line match regex")
                           /\ UNCHANGED compiled
    /\ UNCHANGED <<parse_vars, lookup_count, lookup_ret>>

Next ==
    \/ ParseVariable
    \/ ParseVariableEmptyNamePanic
    \/ ParseVariableEmptyNameWrap
    \/ ParseRegexOpen
    \/ ParseText
    \/ ParseEnd
    \/ RegexClose
    \/ RegexChar
    \/ RegexEnd
    \/ Display
    \/ ParseRendered
    \/ Resolve

Spec == Init /\ [][Next]_vars

----------------------------------------------------------------------------
(* Config::lookup_variable (src/src/config.rs, lines 117-132).             *)

Tempfile == <<"t", "e", "m", "p", "f", "i", "l", "e">>

\* The names looked up: those of the test (lines 181-200) and an unknown one.
LookupNames ==
    { <<"n", "a", "m", "e">>,
      <<"f", "i", "r", "s", "t", "_">> \o Tempfile,
      <<"s", "e", "c", "o", "n", "d", "_">> \o Tempfile,
      <<"o", "t", "h", "e", "r">> }

\* The paths a temporary file may get.
TempPaths == { <<"/", "t", "1">>, <<"/", "t", "2">>, <<"/", "t", "3">> }

\* config.constants: none, or the test's (line 181).
ConstantMaps == { <<>>, (<<"n", "a", "m", "e">> :> <<"b", "o", "b">>) }

\* str::contains
Contains(s, t) ==
    \E i \in 1..(Len(s) - Len(t) + 1) : SubSeq(s, i, i + Len(t) - 1) = t

\* DEFAULT_VARIABLE_LOOKUP (lines 69-76), and the test's (lines 178-180): the
\* values it may return for the name v; "None" stands for None.
VariableLookup(v) == IF Contains(v, Tempfile) THEN TempPaths ELSE {"None"}

\* A lookup that asks the lookup function on every call.
ConsultsAlways(name, vs) == TRUE

\* Line 122: the lookup function is called only for a name the map lacks.
Consults(name, vs) == name \notin DOMAIN vs

\* Lines 123-128: the map after the match on what the lookup function
\* returned; HashMap::insert replaces a binding the name already has.
LookupInsert(name, vs, initial_value) ==
    IF initial_value # "None" THEN (name :> initial_value) @@ vs ELSE vs

\* lookup_variable(name, variables): line 131 panics on a name still unbound.
LookupVariable(name) ==
    /\ pc = "caller"
    /\ lookup_count < MaxLookups
    /\ lookup_count' = lookup_count + 1
    /\ \E initial_value \in
            (IF Consults(name, variables) THEN VariableLookup(name)
             ELSE {"None"}) :
        /\ variables' = LookupInsert(name, variables, initial_value)
        /\ IF name \in DOMAIN variables'
           THEN /\ lookup_ret' = [name |-> name,
                                  consulted |-> Consults(name, variables),
                                  value |-> variables'[name]]
                /\ UNCHANGED <<pc, panic>>
           ELSE /\ lookup_ret' = [name |-> name,
                                  consulted |-> Consults(name, variables),
                                  value |-> "None"]
                /\ pc' = "panicked"
                /\ panic' = Panic("no variable with the name exists")
    /\ UNCHANGED <<parse_vars, regex_parts, compiled>>

\* The caller starts from a clone of the constants (line 184).
InitLookup ==
    /\ ParseEntry(<<>>)
    /\ pc = "caller"
    /\ round = 1
    /\ matcher = <<>>
    /\ rendered = <<>>
    /\ panic = NoPanic
    /\ NoResolve
    /\ variables \in ConstantMaps
    /\ lookup_count = 0
    /\ lookup_ret = "None"

NextLookup == \E name \in LookupNames : LookupVariable(name)

SpecLookup == InitLookup /\ [][NextLookup]_vars

----------------------------------------------------------------------------
(* The matcher grammar of the specification, read off a source string.     *)

RECURSIVE BlockEndFrom(_, _, _)
\* The position of the `]]` that ends a block whose body starts at position
\* j of s, d being the depth reached so far; 0 if the block is not terminated.
BlockEndFrom(s, j, d) ==
    IF j > Len(s) THEN 0
    ELSE IF s[j] = "]" /\ j < Len(s) /\ s[j + 1] = "]" /\ d = 0 THEN j
    ELSE BlockEndFrom(s, j + 1,
                      IF s[j] = "[" THEN d + 1
                      ELSE IF s[j] = "]" THEN d - 1 ELSE d)

RECURSIVE IsTypicalFrom(_, _)
\* From position i on, s is made of literal text, `$$name` references with a
\* non-empty alphanumeric name, and terminated `[[...]]` blocks.
IsTypicalFrom(s, i) ==
    IF i > Len(s) THEN TRUE
    ELSE IF i < Len(s) /\ s[i] = "$" /\ s[i + 1] = "$"
    THEN LET name == TakeWhileAlphanumeric(From(s, i + 2))
         IN name # <<>> /\ IsTypicalFrom(s, i + 2 + Len(name))
    ELSE IF i < Len(s) /\ s[i] = "[" /\ s[i + 1] = "["
    THEN LET e == BlockEndFrom(s, i + 2, 0)
         IN e # 0 /\ IsTypicalFrom(s, e + 2)
    ELSE IsTypicalFrom(s, i + 1)

IsTypical(s) == IsTypicalFrom(s, 1)

\* The first parse has returned its Matcher.
Parsed == pc = "returned" /\ round = 1
\* The parse of the rendering has returned.
Reparsed == pc = "returned" /\ round = 2

----------------------------------------------------------------------------
(* Claims.                                                                 *)

\* C1: round trip.  For every source made of literal text, `$$name`
\* references and terminated blocks, parsing the rendering of parse(s) gives
\* the components of parse(s).
C1_RoundTrip == (Reparsed /\ IsTypical(source)) => components = matcher

\* C2: ordering preservation.  Literal text that precedes the first `$$name`
\* reference of the source (no marker before it) is the first component, a
\* Text, and the Variable is the second.
C2_TextBeforeVariable ==
    Parsed =>
        \A k \in 2..(Len(source) - 2) :
            LET before == SubSeq(source, 1, k - 1)
                name == TakeWhileAlphanumeric(From(source, k + 2))
            IN (/\ source[k] = "$" /\ source[k + 1] = "$"
                /\ name # <<>>
                /\ \A i \in 1..(k - 1) : before[i] \notin {"$", "["})
               => /\ Len(components) >= 2
                  /\ components[1] = Text(before)
                  /\ components[2] = Variable(name)

\* C3: parse is total.  No input makes parse panic.
C3_ParseNeverPanics ==
    panic \notin {Panic("attempt to subtract with overflow"),
                  Panic("byte index is not a char boundary")}

\* resolve has been called on the parsed Matcher and has ended.
ResolveEnded ==
    \/ pc = "resolved"
    \/ /\ pc = "panicked"
       /\ panic \in {Panic("no variable with that name"),
                     Panic("generated invalid line match regex")}

\* The non-empty names of Variable components that the map given to resolve
\* lacks.
UnboundNames ==
    {components[i].name : i \in {j \in 1..Len(components) :
        /\ components[j].kind = "Variable"
        /\ components[j].name # <<>>
        /\ components[j].name \notin DOMAIN variables}}

\* C4: missing variable failure.  Resolving a Matcher with a Variable whose
\* name the mapping lacks fails with UnboundVariable carrying that name, and
\* compiles no regex.
C4_UnboundVariableError ==
    (ResolveEnded /\ UnboundNames # {}) =>
        /\ compiled = "None"
        /\ \E n \in UnboundNames :
              panic = [panicked |-> TRUE, message |-> "UnboundVariable",
                       name |-> n]

\* The step leaves the block loop by taking a `]]` pair as the end marker:
\* the loop is left and two chars are consumed (the end of the input leaves
\* it consuming none).
ClosesBlock ==
    /\ pc = "inner"
    /\ pc' # "inner"
    /\ Len(chars') = Len(chars) - 2

\* C5: nested brackets.  In a block the depth counter is the number of `[`
\* less the number of `]` scanned so far; a `]]` pair ends the block only at
\* depth zero, so the body of a block closed by `]]` is exactly the chars
\* between the opening marker and that pair and has as many `[` as `]`.
C5_NestedBrackets ==
    [][/\ pc = "inner" =>
            bracket_level = Count(current_regex, "[") - Count(current_regex, "]")
       /\ ClosesBlock =>
            LET input == CurrentInput
                at == Len(input) - Len(chars)
                open == at - Len(current_regex)
            IN /\ bracket_level = 0
               /\ Count(current_regex, "[") = Count(current_regex, "]")
               /\ open >= 2
               /\ SubSeq(input, open - 1, open) = <<"[", "[">>
               /\ SubSeq(input, open + 1, at) = current_regex
               /\ SubSeq(input, at + 1, at + 2) = <<"]", "]">>
               /\ current_regex' = current_regex]_vars

\* C5 witness: `[[[]]]` has been parsed, its body `[]` closed at depth zero.
C5_Witness ==
    /\ Parsed
    /\ source = <<"[", "[", "[", "]", "]", "]">>
    /\ components = <<Text(<<>>), Regex(<<"[", "]">>), Text(<<>>)>>

\* The component the specification gives a block body: named when the text
\* before the first colon is an identifier, anonymous otherwise.
Position(s, c) == CHOOSE i \in 1..Len(s) : s[i] = c /\ \A j \in 1..(i - 1) : s[j] # c
IsIdentifier(s) ==
    /\ s # <<>>
    /\ s[1] \in {"a", "_"}
    /\ \A i \in 2..Len(s) : s[i] \in {"a", "1", "_"}
ExpectedComponent(body) ==
    IF \E i \in 1..Len(body) : body[i] = ":"
    THEN LET colon == Position(body, ":")
             prefix == SubSeq(body, 1, colon - 1)
         IN IF IsIdentifier(prefix)
            THEN NamedRegex(prefix, From(body, colon + 1))
            ELSE Regex(body)
    ELSE Regex(body)

\* C6: named/anonymous disambiguation.  Every block body becomes
\* NamedRegex(name, pattern) exactly when it has a `:` whose prefix is an
\* identifier, and otherwise an anonymous Regex of the whole body.
C6_Disambiguation ==
    [][(pc = "inner" /\ pc' # "inner") =>
          /\ pc' = "outer"
          /\ components' = Append(components, ExpectedComponent(current_regex))]_vars

RECURSIVE SumLen(_, _)
\* The total length of the first n strings of parts.
SumLen(parts, n) == IF n = 0 THEN 0 ELSE SumLen(parts, n - 1) + Len(parts[n])

RECURSIVE IsEscapedForm(_, _)
\* f is t with a backslash before each regex meta character and nothing else
\* added.
IsEscapedForm(f, t) ==
    IF t = <<>> THEN f = <<>>
    ELSE IF Head(t) \in {".", "$", "[", "]"}
    THEN /\ Len(f) >= 2
         /\ f[1] = "\\" /\ f[2] = Head(t)
         /\ IsEscapedForm(From(f, 3), Tail(t))
    ELSE /\ Len(f) >= 1
         /\ f[1] = Head(t)
         /\ IsEscapedForm(From(f, 2), Tail(t))

\* C7: resolve assembles the regex source from one fragment per component,
\* in component order: a Text escaped, a Variable's value verbatim, a Regex's
\* pattern verbatim, a NamedRegex's pattern in a group labelled with its name.
C7_ResolveAssembles ==
    pc = "resolved" =>
        /\ Len(regex_parts) = Len(components)
        /\ Len(compiled) = SumLen(regex_parts, Len(regex_parts))
        /\ \A i \in 1..Len(components) :
              LET c == components[i]
                  f == regex_parts[i]
                  off == SumLen(regex_parts, i - 1)
              IN /\ SubSeq(compiled, off + 1, off + Len(f)) = f
                 /\ c.kind = "Text" => IsEscapedForm(f, c.text)
                 /\ c.kind = "Variable" => f = variables[c.name]
                 /\ c.kind = "Regex" => f = c.regex
                 /\ c.kind = "NamedRegex" =>
                       f = <<"(", "?", "P", "<">> \o c.name \o <<">">>
                           \o c.regex \o <<")">>

\* C7 witness: `.$$a` resolved with a bound to `a.b`: the dot of the Text is
\* escaped and the dot of the value is not.
C7_Witness ==
    /\ pc = "resolved"
    /\ source = <<".", "$", "$", "a">>
    /\ variables = (<<"a">> :> <<"a", ".", "b">>)
    /\ regex_parts = << <<"a", ".", "b">>, <<"\\", ".">> >>
    /\ compiled = <<"a", ".", "b", "\\", ".">>

\* C8: variable lookup is stable.  A call for a bound name returns its
\* binding without consulting the lookup function; the function is consulted
\* only for a name the map lacks; no call changes or removes an existing
\* binding, or binds a name other than the one looked up.
C8_LookupStable ==
    [][lookup_count' # lookup_count =>
          LET name == lookup_ret'.name
          IN /\ name \in DOMAIN variables =>
                    /\ lookup_ret'.value = variables[name]
                    /\ ~lookup_ret'.consulted
             /\ lookup_ret'.consulted => name \notin DOMAIN variables
             /\ \A n \in DOMAIN variables :
                    n \in DOMAIN variables' /\ variables'[n] = variables[n]
             /\ \A n \in DOMAIN variables' :
                    n # name => n \in DOMAIN variables]_vars

\* C8 witness: a tempfile name bound by an earlier call has been looked up
\* again, with another tempfile name bound in between.
C8_Witness ==
    /\ lookup_count >= 3
    /\ Contains(lookup_ret.name, Tempfile)
    /\ ~lookup_ret.consulted
    /\ Cardinality({n \in DOMAIN variables : Contains(n, Tempfile)}) = 2
    /\ lookup_ret.value = variables[lookup_ret.name]

\* C9: empty-name variable.  A `$$` followed by no alphanumeric char appends
\* a Variable with the empty name, consumes the two marker chars only, and
\* scanning goes on with the char after the marker.
C9_EmptyNameContinues ==
    [][(/\ pc = "outer"
        /\ First(chars) = "$" /\ Second(chars) = "$"
        /\ (Len(chars) = 2 \/ ~IsAlphanumeric(chars[3])))
       => /\ pc' = "outer"
          /\ components' = Append(components, Variable(<<>>))
          /\ chars' = From(chars, 3)
          /\ current_text' = current_text]_vars

\* The components of the given kinds.
OfKind(comps, kinds) == {i \in 1..Len(comps) : comps[i].kind \in kinds}

\* C10: text flush shape.  A parse result ends with a Text, has a Text right
\* before every Regex or NamedRegex, and has one Text more than it has Regex
\* and NamedRegex components.
C10_TextFlushShape ==
    pc = "returned" =>
        /\ components # <<>>
        /\ components[Len(components)].kind = "Text"
        /\ \A i \in OfKind(components, {"Regex", "NamedRegex"}) :
              i >= 2 /\ components[i - 1].kind = "Text"
        /\ Cardinality(OfKind(components, {"Text"}))
              = Cardinality(OfKind(components, {"Regex", "NamedRegex"})) + 1

\* C10 witness: `a[[:` has been parsed: a Text, an anonymous Regex ended by
\* the end of the input, and the final empty Text.
C10_Witness ==
    /\ Parsed
    /\ components = <<Text(<<"a">>), Regex(<<":">>), Text(<<>>)>>

=============================================================================
